---------------------------- MODULE Spec2Model ----------------------------
(***************************************************************************)
(* Model of the node-local control plane of go-controller:                 *)
(*   - loadBalancerHealthChecker (pkg/node/healthcheck_service.go): two    *)
(*     tables guarded by one mutex, pushed to the health-check server;     *)
(*   - the CNI request server exercised by pkg/cni/cniserver_test.go.      *)
(***************************************************************************)
EXTENDS Integers, Sequences, FiniteSets, TLC

VARIABLES
    services,        \* l.services : NamespacedName -> uint16 (Absent when no key)
    endpoints,       \* l.endpoints: NamespacedName -> int    (Absent when no key)
    lock,            \* l.Mutex: the goroutine holding it, or NoProc
    srvServices,     \* the table the health server last accepted in SyncServices
    srvEndpoints,    \* the table the health server last accepted in SyncEndpoints
    pc,              \* per goroutine: position in the operation it runs
    op,              \* per goroutine: the operation and its arguments
    epSlices,        \* per goroutine: local variable epSlices (fetched list)
    errors,          \* per goroutine: UpdateService's local errors list
    ret,             \* per goroutine: what the last operation returned
    pre,             \* per goroutine: both tables as they were when the call started
    log,             \* per goroutine: external calls made by the running operation
    cin,             \* argument of a direct CountLocalReadyEndpointAddresses call
    cout,            \* its result
    cniStage,        \* request server: "idle", "posted" or "answered"
    cniReq,          \* request server: the request of the connection
    cniResp,         \* request server: the response written
    cniCalls         \* request server: handler invocations for the request

syncVars == <<services, endpoints, lock, srvServices, srvEndpoints,
              pc, op, epSlices, errors, ret, pre, log>>
countVars == <<cin, cout>>
cniVars == <<cniStage, cniReq, cniResp, cniCalls>>
vars == <<syncVars, countVars, cniVars>>

-----------------------------------------------------------------------------
(* Bounds of the model *)

MaxPort == 2
\* slices in an argument list of CountLocalReadyEndpointAddresses
MaxSlices == 2
\* endpoints in the slices of such a list, all together
MaxEndpoints == 2

\* goroutines delivering events
Procs == {1, 2}
NoProc == 0

\* Namespaced names of services (namespace/name)
Names == {"ns/a", "ns/b"}
\* a key the Go map does not hold
Absent == -1
NoLabel == ""

\* svc.Spec.HealthCheckNodePort values (int32)
Ports == 0..MaxPort
ETPs == {"Cluster", "Local"}

LocalNode == "node1"
NodeNames == {"nil", LocalNode, "node2"}
Addrs == {"10.0.0.1", "10.0.0.2"}

-----------------------------------------------------------------------------
(* Endpoint slices and the local-ready count *)

\* discovery.Endpoint: NodeName (*string, "nil" when unset), Conditions, Addresses
Endpoint(n, r, s, t, a) ==
    [nodeName |-> n, ready |-> r, serving |-> s, terminating |-> t, addresses |-> a]

IsEndpointReady(endpoint) == endpoint.ready

RECURSIVE Insert(_, _)
\* sets.String.Insert(items...)
Insert(set, items) ==
    IF items = <<>> THEN set
    ELSE Insert(set \cup {Head(items)}, Tail(items))

RECURSIVE CountEndpoints_AnyNode(_, _)
\* the inner loop without the test of the node name
CountEndpoints_AnyNode(set, eps) ==
    IF eps = <<>> THEN set
    ELSE LET endpoint == Head(eps)
         IN  CountEndpoints_AnyNode(IF IsEndpointReady(endpoint)
                                        THEN Insert(set, endpoint.addresses)
                                        ELSE set,
                                    Tail(eps))

RECURSIVE CountEndpoints(_, _)
\* inner loop of CountLocalReadyEndpointAddresses over endpointSlice.Endpoints
CountEndpoints(set, eps) ==
    IF eps = <<>> THEN set
    ELSE LET endpoint == Head(eps)
             isLocal == endpoint.nodeName # "nil" /\ endpoint.nodeName = LocalNode
         IN  CountEndpoints(IF IsEndpointReady(endpoint) /\ isLocal
                                THEN Insert(set, endpoint.addresses)
                                ELSE set,
                            Tail(eps))

RECURSIVE CountSlices(_, _)
\* outer loop of CountLocalReadyEndpointAddresses over endpointSlices
CountSlices(set, slices) ==
    IF slices = <<>> THEN set
    ELSE CountSlices(CountEndpoints(set, Head(slices)), Tail(slices))

CountLocalReadyEndpointAddresses(endpointSlices) ==
    Cardinality(CountSlices({}, endpointSlices))


-----------------------------------------------------------------------------
(* The two tables: Go maps keyed by NamespacedName *)

EmptyMap == [n \in Names |-> Absent]
MapHas(m, k) == m[k] # Absent
MapSet(m, k, v) == [m EXCEPT ![k] = v]
MapDelete(m, k) == [m EXCEPT ![k] = Absent]

\* uint16(svc.Spec.HealthCheckNodePort)
Uint16(x) == x % 65536

\* the condition guarding AddService's and DeleteService's body
HasHealthCheckNodePort(port) == port # 0

\* the first condition of UpdateService
IsClusterToLocal(oldETP, newETP) == oldETP = "Cluster" /\ newETP = "Local"
\* the second condition without the test of the old policy
IsLocalToCluster_AnyOld(oldETP, newETP) == newETP = "Cluster"
\* the second condition of UpdateService
IsLocalToCluster(oldETP, newETP) == oldETP = "Local" /\ newETP = "Cluster"

\* an aggregate keeping only the first error
NewAggregate_First(errlist) == IF errlist = <<>> THEN <<>> ELSE <<Head(errlist)>>
\* apierrors.NewAggregate(errors): nil (the empty list) when there are none
NewAggregate(errlist) == errlist

\* an extraction that never fails
ExtractFails_Never(label) == FALSE
\* serviceNamespacedNameFromEndpointSlice: fails on a missing service-name label
ExtractFails(label) == label = NoLabel

\* AddService writing only when the service has no entry yet
AddServiceWrite_KeepExisting(svcs, name, port) ==
    IF MapHas(svcs, name) THEN svcs ELSE MapSet(svcs, name, Uint16(port))
\* AddService leaving the table as it is
AddServiceWrite_Nothing(svcs, name, port) == svcs
\* AddService's table write
AddServiceWrite(svcs, name, port) == MapSet(svcs, name, Uint16(port))

\* DeleteService dropping every key of l.services
DeleteServiceSvcs_All(svcs, name) == [n \in Names |-> Absent]
\* DeleteService's writes to l.services and l.endpoints
DeleteServiceSvcs(svcs, name) == MapDelete(svcs, name)
\* DeleteService dropping every key of l.endpoints
DeleteServiceEps_All(eps, name) == [n \in Names |-> Absent]
DeleteServiceEps(eps, name) == MapDelete(eps, name)

\* AddEndpointSlice going on without the `exists` test
AddSliceTracked_NoTest(svcs, name) == TRUE
\* the `exists` test of AddEndpointSlice and UpdateEndpointSlice
AddSliceTracked(svcs, name) == MapHas(svcs, name)
UpdateSliceTracked(svcs, name) == MapHas(svcs, name)
\* DeleteEndpointSlice calls SyncEndPointSlices without any test
DeleteSliceTracked(svcs, name) == TRUE

\* SyncEndPointSlices writing the count whatever the fetched list
SyncWrite_ExplicitZero(eps, name, slices) ==
    MapSet(eps, name, CountLocalReadyEndpointAddresses(slices))
\* SyncEndPointSlices' table write
SyncWrite(eps, name, slices) ==
    IF Len(slices) = 0
        THEN MapDelete(eps, name)
        ELSE MapSet(eps, name, CountLocalReadyEndpointAddresses(slices))

\* the transition writing as SyncEndPointSlices does: no entry for an empty list
UpdateServiceWrite_AsSync(eps, name, slices) ==
    IF Len(slices) = 0
        THEN MapDelete(eps, name)
        ELSE MapSet(eps, name, CountLocalReadyEndpointAddresses(slices))
\* UpdateService's endpoint-table write in the Cluster->Local transition
UpdateServiceWrite(eps, name, slices) ==
    MapSet(eps, name, CountLocalReadyEndpointAddresses(slices))

\* Slice lists the Object Cache may return for a service
SliceListEmpty == <<>>
SliceListNoneLocalReady ==
    << <<Endpoint("node2", TRUE, TRUE, FALSE, <<"10.0.0.1">>),
         Endpoint(LocalNode, FALSE, TRUE, TRUE, <<"10.0.0.2">>)>> >>
SliceListOne ==
    << <<Endpoint(LocalNode, TRUE, TRUE, FALSE, <<"10.0.0.1">>)>>,
       <<Endpoint(LocalNode, TRUE, TRUE, FALSE, <<"10.0.0.1">>),
         Endpoint("nil", TRUE, TRUE, FALSE, <<"10.0.0.2">>)>> >>
SliceListTwo ==
    << <<Endpoint(LocalNode, TRUE, TRUE, FALSE, <<"10.0.0.1", "10.0.0.2">>)>>,
       <<Endpoint(LocalNode, TRUE, FALSE, FALSE, <<"10.0.0.2">>)>> >>
\* two slices of one service, each with its own local ready address
SliceListSplit ==
    << <<Endpoint(LocalNode, TRUE, TRUE, FALSE, <<"10.0.0.1">>)>>,
       <<Endpoint(LocalNode, TRUE, TRUE, FALSE, <<"10.0.0.2">>)>> >>
SliceLists == {SliceListEmpty, SliceListNoneLocalReady, SliceListOne, SliceListTwo,
               SliceListSplit}

-----------------------------------------------------------------------------
(* The CNI request server and the handler of its test *)

\* Strings are sequences of tokens. Request.Env maps keys to strings: `has`
\* holds the keys present, `val` their values (empty for an absent key)
EnvKeys == {"CNI_COMMAND", "CNI_CONTAINERID", "CNI_NETNS", "CNI_ARGS"}
MkEnv(has, cmd, id, netns, args) ==
    [has |-> has,
     val |-> [k \in EnvKeys |->
                IF k \notin has THEN <<>>
                ELSE CASE k = "CNI_COMMAND" -> cmd
                       [] k = "CNI_CONTAINERID" -> id
                       [] k = "CNI_NETNS" -> netns
                       [] OTHER -> args]]

CNIAdd == <<"ADD">>
CNIDel == <<"DEL">>
CNIUpdate == <<"UPDATE">>
CNICheck == <<"CHECK">>
sandboxID == <<"adsfadsfasfdasdfasf">>
namespace == "awesome-namespace"
\* the test's constant `name`
podname == "awesome-name"
cniConfig == <<"cniVersion 0.1.0">>
cniConfig_40 == <<"cniVersion 0.4.0">>

\* fmt.Sprintf("K8S_POD_NAMESPACE=%s;K8S_POD_NAME=%s", namespace, name)
makeCNIArgs(ns, nm) ==
    <<"K8S_POD_NAMESPACE", "=", ns, ";", "K8S_POD_NAME", "=", nm>>

\* the result the handler of the test returns for ADD
expectedResult == [IP4 |-> [IP |-> "10.0.0.2", Mask |-> "ffffff00"]]

\* json.Marshal of a cni020.Result, and json.Unmarshal into one
Marshal(result) ==
    <<"{", "ip4", ":", "{", "ip", ":", result.IP4.IP, "/", result.IP4.Mask, "}", "}">>
Unmarshal(bytes) ==
    IF Len(bytes) = 11 /\ SubSeq(bytes, 1, 6) = <<"{", "ip4", ":", "{", "ip", ":">>
          /\ bytes[8] = "/" /\ SubSeq(bytes, 10, 11) = <<"}", "}">>
        THEN [IP4 |-> [IP |-> bytes[7], Mask |-> bytes[9]]]
        ELSE [IP4 |-> [IP |-> "", Mask |-> ""]]

\* the handler returning nothing for ADD
serverHandleCNI_NoResult(request) ==
    IF request.Command \in {CNIAdd, CNIDel, CNIUpdate, CNICheck}
        THEN [out |-> <<>>, err |-> <<>>]
        ELSE [out |-> <<>>, err |-> <<"unhandled CNI command">> \o request.Command]
\* serverHandleCNI: ([]byte, error), a nil error being the empty string
serverHandleCNI(request) ==
    IF request.Command = CNIAdd
        THEN [out |-> Marshal(expectedResult), err |-> <<>>]
        ELSE IF request.Command = CNIDel \/ request.Command = CNIUpdate
                   \/ request.Command = CNICheck
                 THEN [out |-> <<>>, err |-> <<>>]
                 ELSE [out |-> <<>>, err |-> <<"unhandled CNI command">> \o request.Command]

RECURSIVE Split(_, _, _)
\* strings.Split(s, sep): `cur` is the piece being read
Split(s, sep, cur) ==
    IF s = <<>> THEN <<cur>>
    ELSE IF Head(s) = sep THEN <<cur>> \o Split(Tail(s), sep, <<>>)
         ELSE Split(Tail(s), sep, Append(cur, Head(s)))

\* the value of `key` among the KEY=VALUE pieces of CNI_ARGS ("" when absent)
ArgValue(args, key) ==
    LET pieces == Split(args, ";", <<>>)
        hits == {i \in 1..Len(pieces) :
                    LET kv == Split(pieces[i], "=", <<>>)
                    IN  Len(kv) = 2 /\ kv[1] = <<key>>}
    IN  IF hits = {} THEN <<>>
        ELSE LET i == CHOOSE i \in hits : \A j \in hits : i <= j
             IN  Split(pieces[i], "=", <<>>)[2]

ErrCommand == <<"unexpected or missing CNI_COMMAND">>
ErrContainerID == <<"missing CNI_CONTAINERID">>
ErrNetns == <<"missing CNI_NETNS">>
ErrArgs == <<"missing CNI_ARGS">>

\* the first failing check of a request under a given order of the checks,
\* <<>> when all pass
FirstFailure(env, order) ==
    LET fails(c) ==
          CASE c = "command" ->
                 ~("CNI_COMMAND" \in env.has
                     /\ env.val["CNI_COMMAND"] \in {CNIAdd, CNIDel, CNIUpdate, CNICheck})
            [] c = "containerID" ->
                 ~("CNI_CONTAINERID" \in env.has /\ env.val["CNI_CONTAINERID"] # <<>>)
            [] c = "netns" ->
                 ~("CNI_NETNS" \in env.has \/ env.val["CNI_COMMAND"] = CNIDel)
            [] OTHER ->
                 ~("CNI_ARGS" \in env.has
                     /\ ArgValue(env.val["CNI_ARGS"], "K8S_POD_NAMESPACE") # <<>>
                     /\ ArgValue(env.val["CNI_ARGS"], "K8S_POD_NAME") # <<>>)
        text(c) ==
          CASE c = "command" -> ErrCommand
            [] c = "containerID" -> ErrContainerID
            [] c = "netns" -> ErrNetns
            [] OTHER -> ErrArgs
        failing == {i \in 1..Len(order) : fails(order[i])}
    IN  IF failing = {} THEN <<>>
        ELSE text(order[CHOOSE i \in failing : \A j \in failing : i <= j])

\* the checks made in the order network namespace, command, container ID,
\* arguments
Validate_NetnsFirst(env) ==
    FirstFailure(env, <<"netns", "command", "containerID", "args">>)
\* the checks without the one of the network namespace
Validate_NoNetns(env) ==
    FirstFailure(env, <<"command", "containerID", "args">>)
\* the checks made in the order arguments, network namespace, container ID,
\* command
Validate_ArgsFirst(env) ==
    FirstFailure(env, <<"args", "netns", "containerID", "command">>)
\* validation of a request: the error text of the first failing check in the
\* order command, container ID, network namespace, arguments
Validate(env) ==
    FirstFailure(env, <<"command", "containerID", "netns", "args">>)

\* the PodRequest built from a valid request
PodRequest(req) ==
    [Command |-> req.Env.val["CNI_COMMAND"],
     SandboxID |-> req.Env.val["CNI_CONTAINERID"],
     Netns |-> req.Env.val["CNI_NETNS"],
     PodNamespace |-> ArgValue(req.Env.val["CNI_ARGS"], "K8S_POD_NAMESPACE"),
     PodName |-> ArgValue(req.Env.val["CNI_ARGS"], "K8S_POD_NAME"),
     CNIConf |-> req.Config]

StatusOK == 200
StatusBadRequest == 400

NoRequest == [Env |-> MkEnv({}, <<>>, <<>>, <<>>, <<>>), Config |-> <<>>]
NoResponse == [status |-> 0, body |-> <<>>]

\* requests a client may post: those of TestCNIServer are among them
Commands == {CNIAdd, CNIDel, CNIUpdate, CNICheck, <<"BOGUS">>}
ContainerIDs == {sandboxID, <<>>}
ArgStrings == {makeCNIArgs(namespace, podname),
               <<"K8S_POD_NAMESPACE", "=", namespace>>,
               <<"IgnoreUnknown", "=", "1", ";", "K8S_POD_NAME", "=", podname>>,
               <<"IgnoreUnknown", "=", "1", ";">> \o makeCNIArgs(namespace, podname),
               <<>>}
Requests ==
    {[Env |-> MkEnv(has, cmd, id, <<"/path/to/something">>, args), Config |-> cfg] :
        has \in SUBSET EnvKeys, cmd \in Commands, id \in ContainerIDs,
        args \in ArgStrings, cfg \in {cniConfig, cniConfig_40}}

-----------------------------------------------------------------------------
(* Bookkeeping of one call *)

NoOp == [kind |-> "none", name |-> "ns/a", label |-> NoLabel,
         port |-> 0, etp |-> "Cluster", oldPort |-> 0, oldETP |-> "Cluster"]
NoLog == [fetch |-> 0, fetchFailed |-> FALSE, pushS |-> 0, pushE |-> 0,
          pushFailed |-> FALSE, failed |-> {}, after |-> {}]
Tables == [services |-> services, endpoints |-> endpoints]

Idle(p) == pc[p] = "idle"

\* a call starts: record the arguments and the tables, go to position `at`
Start(p, E, o, at) ==
    /\ Idle(p)
    /\ op' = [op EXCEPT ![p] = o]
    /\ pre' = IF E.history THEN [pre EXCEPT ![p] = Tables] ELSE pre
    /\ log' = [log EXCEPT ![p] = NoLog]
    /\ errors' = [errors EXCEPT ![p] = <<>>]
    /\ epSlices' = [epSlices EXCEPT ![p] = <<>>]
    /\ ret' = [ret EXCEPT ![p] = <<>>]
    /\ pc' = [pc EXCEPT ![p] = at]

\* a call starts and returns at once with `e`
StartReturn(p, E, o, e) ==
    /\ Idle(p)
    /\ op' = [op EXCEPT ![p] = o]
    /\ pre' = IF E.history THEN [pre EXCEPT ![p] = Tables] ELSE pre
    /\ log' = [log EXCEPT ![p] = NoLog]
    /\ errors' = [errors EXCEPT ![p] = <<>>]
    /\ epSlices' = [epSlices EXCEPT ![p] = <<>>]
    /\ ret' = [ret EXCEPT ![p] = e]
    /\ pc' = [pc EXCEPT ![p] = "done"]

Return(p, e) ==
    /\ ret' = [ret EXCEPT ![p] = e]
    /\ pc' = [pc EXCEPT ![p] = "done"]

Goto(p, at) == pc' = [pc EXCEPT ![p] = at]

\* the goroutines other than p whose call in progress has fetched already:
\* a fetch p makes now comes after theirs
Fetched(p) == {q \in Procs \ {p} : log[q].fetch > 0}

\* the caller has taken the result: the goroutine is free for the next event
Finish(p) ==
    /\ pc[p] = "done"
    /\ pc' = [pc EXCEPT ![p] = "idle"]
    /\ op' = [op EXCEPT ![p] = NoOp]
    /\ pre' = [pre EXCEPT ![p] = [services |-> EmptyMap, endpoints |-> EmptyMap]]
    /\ log' = [q \in Procs |-> IF q = p THEN NoLog
                                ELSE [log[q] EXCEPT !.after = @ \ {p}]]
    /\ errors' = [errors EXCEPT ![p] = <<>>]
    /\ epSlices' = [epSlices EXCEPT ![p] = <<>>]
    /\ ret' = [ret EXCEPT ![p] = <<>>]
    /\ UNCHANGED <<services, endpoints, lock, srvServices, srvEndpoints>>
    /\ UNCHANGED <<countVars, cniVars>>

\* l.Lock(): blocks until the mutex is free (sync.Mutex is not reentrant)
Lock(p) == lock = NoProc /\ lock' = p
\* a return path that keeps the mutex
Unlock_Kept(p) == lock' = lock
\* l.Unlock()
Unlock(p) == lock' = NoProc

\* a push that never reaches the health server
ServerSync_Lost(E, ok, table, held) == held
\* l.server.SyncServices(l.services) and l.server.SyncEndpoints(l.endpoints):
\* the table the health server holds after the push of `table`, `held` being
\* what it held before; a failed push leaves it
ServerSync(E, ok, table, held) == IF ok /\ E.server THEN table ELSE held

Init ==
    /\ services = EmptyMap
    /\ endpoints = EmptyMap
    /\ lock = NoProc
    /\ srvServices = EmptyMap
    /\ srvEndpoints = EmptyMap
    /\ pc = [p \in Procs |-> "idle"]
    /\ op = [p \in Procs |-> NoOp]
    /\ epSlices = [p \in Procs |-> <<>>]
    /\ errors = [p \in Procs |-> <<>>]
    /\ ret = [p \in Procs |-> <<>>]
    /\ pre = [p \in Procs |-> [services |-> EmptyMap, endpoints |-> EmptyMap]]
    /\ log = [p \in Procs |-> NoLog]
    /\ cin = <<>>
    /\ cout = 0
    /\ cniStage = "idle"
    /\ cniReq = NoRequest
    /\ cniResp = NoResponse
    /\ cniCalls = <<>>

-----------------------------------------------------------------------------
(* AddService *)

SvcOp(k, n, port, etp) ==
    [kind |-> k, name |-> n, label |-> NoLabel, port |-> port, etp |-> etp,
     oldPort |-> port, oldETP |-> etp]

\* AddService(svc): the call and the test of the port
CallAddService(p, E) ==
    \E n \in E.names, port \in E.ports, etp \in ETPs :
        /\ IF HasHealthCheckNodePort(port)
              THEN Start(p, E, SvcOp("AddService", n, port, etp), "AS_Lock")
              ELSE StartReturn(p, E, SvcOp("AddService", n, port, etp), <<>>)
        /\ UNCHANGED <<services, endpoints, lock, srvServices, srvEndpoints>>
        /\ UNCHANGED <<countVars, cniVars>>

\* l.Lock() of AddService
AS_Lock(p) ==
    /\ pc[p] = "AS_Lock"
    /\ Lock(p)
    /\ Goto(p, "AS_Body")
    /\ UNCHANGED <<services, endpoints, srvServices, srvEndpoints,
                   op, epSlices, errors, ret, pre, log>>
    /\ UNCHANGED <<countVars, cniVars>>

\* the write, the push, the deferred unlock and the return of AddService;
\* called from UpdateService, it returns into UpdateService
AS_Body(p, E) ==
    /\ pc[p] = "AS_Body"
    /\ \E ok \in E.pushes :
        LET e == IF ok THEN <<>> ELSE <<"SyncServices">> IN
        /\ services' = AddServiceWrite(services, op[p].name, op[p].port)
        /\ srvServices' = ServerSync(E, ok, services', srvServices)
        /\ log' = [log EXCEPT ![p].pushS = @ + 1,
                              ![p].pushFailed = @ \/ ~ok,
                              ![p].failed = IF ok THEN @ ELSE @ \cup {"SyncServices"}]
        /\ Unlock(p)
        /\ IF op[p].kind = "UpdateService"
              THEN /\ errors' = [errors EXCEPT ![p] = @ \o e]
                   /\ Goto(p, "US_Fetch")
                   /\ UNCHANGED ret
              ELSE /\ Return(p, e)
                   /\ UNCHANGED errors
    /\ UNCHANGED <<endpoints, srvEndpoints, op, epSlices, pre>>
    /\ UNCHANGED <<countVars, cniVars>>

AddService(p, E) == CallAddService(p, E) \/ AS_Lock(p) \/ AS_Body(p, E)

-----------------------------------------------------------------------------
(* DeleteService *)

\* DeleteService(svc): the call and the test of the port (the policy of svc
\* is not read, and is left out of the arguments)
CallDeleteService(p, E) ==
    \E n \in E.names, port \in E.ports :
        /\ IF HasHealthCheckNodePort(port)
              THEN Start(p, E, SvcOp("DeleteService", n, port, "Local"), "DS_Lock")
              ELSE StartReturn(p, E, SvcOp("DeleteService", n, port, "Local"), <<>>)
        /\ UNCHANGED <<services, endpoints, lock, srvServices, srvEndpoints>>
        /\ UNCHANGED <<countVars, cniVars>>

\* l.Lock() of DeleteService
DS_Lock(p) ==
    /\ pc[p] = "DS_Lock"
    /\ Lock(p)
    /\ Goto(p, "DS_Body")
    /\ UNCHANGED <<services, endpoints, srvServices, srvEndpoints,
                   op, epSlices, errors, ret, pre, log>>
    /\ UNCHANGED <<countVars, cniVars>>

\* the two deletes, the push of the service table, the deferred unlock and
\* the return of DeleteService; called from UpdateService, UpdateService
\* returns the aggregate right after
DS_Body(p, E) ==
    /\ pc[p] = "DS_Body"
    /\ \E ok \in E.pushes :
        LET e == IF ok THEN <<>> ELSE <<"SyncServices">> IN
        /\ services' = DeleteServiceSvcs(services, op[p].name)
        /\ endpoints' = DeleteServiceEps(endpoints, op[p].name)
        /\ srvServices' = ServerSync(E, ok, services', srvServices)
        /\ log' = [log EXCEPT ![p].pushS = @ + 1,
                              ![p].pushFailed = @ \/ ~ok,
                              ![p].failed = IF ok THEN @ ELSE @ \cup {"SyncServices"}]
        /\ Unlock(p)
        /\ IF op[p].kind = "UpdateService"
              THEN /\ errors' = [errors EXCEPT ![p] = @ \o e]
                   /\ Return(p, NewAggregate(errors'[p]))
              ELSE /\ Return(p, e)
                   /\ UNCHANGED errors
    /\ UNCHANGED <<srvEndpoints, op, epSlices, pre>>
    /\ UNCHANGED <<countVars, cniVars>>

DeleteService(p, E) == CallDeleteService(p, E) \/ DS_Lock(p) \/ DS_Body(p, E)

-----------------------------------------------------------------------------
(* UpdateService *)

UpdOp(n, oldPort, oldETP, newPort, newETP) ==
    [kind |-> "UpdateService", name |-> n, label |-> NoLabel,
     port |-> newPort, etp |-> newETP, oldPort |-> oldPort, oldETP |-> oldETP]

\* where UpdateService(old, new) goes first: into AddService(new), past it when
\* the new port is zero, into DeleteService(old), or straight to its return
UpdateServiceEntry(o) ==
    IF IsClusterToLocal(o.oldETP, o.etp)
        THEN IF HasHealthCheckNodePort(o.port) THEN "AS_Lock" ELSE "US_Fetch"
        ELSE IF IsLocalToCluster(o.oldETP, o.etp) /\ HasHealthCheckNodePort(o.oldPort)
                 THEN "DS_Lock"
                 ELSE "return"

\* UpdateService(old, new): the call and the tests of the policy transition
CallUpdateService(p, E) ==
    \E n \in E.names, oldPort \in E.ports, newPort \in E.ports, oldETP \in ETPs, newETP \in ETPs :
        LET o == UpdOp(n, oldPort, oldETP, newPort, newETP) IN
        /\ IF UpdateServiceEntry(o) = "return"
              THEN StartReturn(p, E, o, NewAggregate(<<>>))
              ELSE Start(p, E, o, UpdateServiceEntry(o))
        /\ UNCHANGED <<services, endpoints, lock, srvServices, srvEndpoints>>
        /\ UNCHANGED <<countVars, cniVars>>

\* l.watchFactory.GetEndpointSlices(new.Namespace, new.Name), made without the lock
US_Fetch(p) ==
    /\ pc[p] = "US_Fetch"
    /\ \/ /\ errors' = [errors EXCEPT ![p] = Append(@, "fetch")]
          /\ log' = [log EXCEPT ![p].fetch = @ + 1, ![p].fetchFailed = TRUE,
                              ![p].failed = @ \cup {"fetch"}]
          /\ Return(p, NewAggregate(errors'[p]))
          /\ UNCHANGED epSlices
       \/ \E fetched \in SliceLists :
          /\ epSlices' = [epSlices EXCEPT ![p] = fetched]
          /\ log' = [log EXCEPT ![p].fetch = @ + 1, ![p].after = Fetched(p)]
          /\ Goto(p, "US_Lock")
          /\ UNCHANGED <<errors, ret>>
    /\ UNCHANGED <<services, endpoints, lock, srvServices, srvEndpoints, op, pre>>
    /\ UNCHANGED <<countVars, cniVars>>

\* l.Lock() of UpdateService
US_Lock(p) ==
    /\ pc[p] = "US_Lock"
    /\ Lock(p)
    /\ Goto(p, "US_Body")
    /\ UNCHANGED <<services, endpoints, srvServices, srvEndpoints,
                   op, epSlices, errors, ret, pre, log>>
    /\ UNCHANGED <<countVars, cniVars>>

\* the endpoint-table write, the push, l.Unlock() and the return of the aggregate
US_Body(p, E) ==
    /\ pc[p] = "US_Body"
    /\ \E ok \in E.pushes :
        /\ endpoints' = UpdateServiceWrite(endpoints, op[p].name, epSlices[p])
        /\ srvEndpoints' = ServerSync(E, ok, endpoints', srvEndpoints)
        /\ log' = [log EXCEPT ![p].pushE = @ + 1,
                              ![p].pushFailed = @ \/ ~ok,
                              ![p].failed = IF ok THEN @ ELSE @ \cup {"SyncEndpoints"}]
        /\ errors' = [errors EXCEPT
                        ![p] = IF ok THEN @ ELSE Append(@, "SyncEndpoints")]
        /\ Unlock(p)
        /\ Return(p, NewAggregate(errors'[p]))
    /\ UNCHANGED <<services, srvServices, op, epSlices, pre>>
    /\ UNCHANGED <<countVars, cniVars>>

UpdateService(p, E) ==
    CallUpdateService(p, E) \/ US_Fetch(p) \/ US_Lock(p) \/ US_Body(p, E)

-----------------------------------------------------------------------------
(* AddEndpointSlice, UpdateEndpointSlice, DeleteEndpointSlice *)

SliceOp(k, lbl) ==
    [kind |-> k, name |-> IF lbl = NoLabel THEN "ns/a" ELSE lbl, label |-> lbl,
     port |-> 0, etp |-> "Cluster", oldPort |-> 0, oldETP |-> "Cluster"]

\* AddEndpointSlice(epSlice): the call and the extraction of the owning service
CallAddEndpointSlice(p, E) ==
    \E lbl \in E.names \cup {NoLabel} :
        /\ IF ExtractFails(lbl)
              THEN StartReturn(p, E, SliceOp("AddEndpointSlice", lbl), <<"extract">>)
              ELSE Start(p, E, SliceOp("AddEndpointSlice", lbl), "ES_Lock")
        /\ UNCHANGED <<services, endpoints, lock, srvServices, srvEndpoints>>
        /\ UNCHANGED <<countVars, cniVars>>

\* UpdateEndpointSlice(oldEpSlice, newEpSlice): the same on newEpSlice
CallUpdateEndpointSlice(p, E) ==
    \E lbl \in E.names \cup {NoLabel} :
        /\ IF ExtractFails(lbl)
              THEN StartReturn(p, E, SliceOp("UpdateEndpointSlice", lbl), <<"extract">>)
              ELSE Start(p, E, SliceOp("UpdateEndpointSlice", lbl), "ES_Lock")
        /\ UNCHANGED <<services, endpoints, lock, srvServices, srvEndpoints>>
        /\ UNCHANGED <<countVars, cniVars>>

\* DeleteEndpointSlice(epSlice): the call; it locks before anything else
CallDeleteEndpointSlice(p, E) ==
    \E lbl \in E.names \cup {NoLabel} :
        /\ Start(p, E, SliceOp("DeleteEndpointSlice", lbl), "ES_Lock")
        /\ UNCHANGED <<services, endpoints, lock, srvServices, srvEndpoints>>
        /\ UNCHANGED <<countVars, cniVars>>

\* l.Lock() of the three handlers
ES_Lock(p) ==
    /\ pc[p] = "ES_Lock"
    /\ Lock(p)
    /\ Goto(p, "ES_Check")
    /\ UNCHANGED <<services, endpoints, srvServices, srvEndpoints,
                   op, epSlices, errors, ret, pre, log>>
    /\ UNCHANGED <<countVars, cniVars>>

\* whether the handler goes on into SyncEndPointSlices
Tracked(o, svcs) ==
    CASE o.kind = "AddEndpointSlice" -> AddSliceTracked(svcs, o.name)
      [] o.kind = "UpdateEndpointSlice" -> UpdateSliceTracked(svcs, o.name)
      [] OTHER -> DeleteSliceTracked(svcs, o.name)

\* the `exists` test; when it fails: deferred unlock, return nil. When it
\* passes: SyncEndPointSlices extracts the owning service again
ES_Check(p) ==
    /\ pc[p] = "ES_Check"
    /\ IF ~Tracked(op[p], services)
          THEN /\ Unlock(p)
               /\ Return(p, <<>>)
          ELSE IF ExtractFails(op[p].label)
                   THEN /\ Unlock(p)
                        /\ Return(p, <<"extract">>)
                   ELSE /\ Goto(p, "SE_Fetch")
                        /\ UNCHANGED <<lock, ret>>
    /\ UNCHANGED <<services, endpoints, srvServices, srvEndpoints,
                   op, epSlices, errors, pre, log>>
    /\ UNCHANGED <<countVars, cniVars>>

\* SyncEndPointSlices: GetEndpointSlices, made under the lock
SE_Fetch(p) ==
    /\ pc[p] = "SE_Fetch"
    /\ \/ /\ log' = [log EXCEPT ![p].fetch = @ + 1, ![p].fetchFailed = TRUE,
                              ![p].failed = @ \cup {"fetch"}]
          /\ Unlock(p)
          /\ Return(p, <<"fetch">>)
          /\ UNCHANGED epSlices
       \/ \E fetched \in SliceLists :
          /\ epSlices' = [epSlices EXCEPT ![p] = fetched]
          /\ log' = [log EXCEPT ![p].fetch = @ + 1, ![p].after = Fetched(p)]
          /\ Goto(p, "SE_Body")
          /\ UNCHANGED <<lock, ret>>
    /\ UNCHANGED <<services, endpoints, srvServices, srvEndpoints, op, errors, pre>>
    /\ UNCHANGED <<countVars, cniVars>>

\* SyncEndPointSlices: the count, the table write and the push; then the
\* handler's deferred unlock and return
SE_Body(p, E) ==
    /\ pc[p] = "SE_Body"
    /\ \E ok \in E.pushes :
        /\ endpoints' = SyncWrite(endpoints, op[p].name, epSlices[p])
        /\ srvEndpoints' = ServerSync(E, ok, endpoints', srvEndpoints)
        /\ log' = [log EXCEPT ![p].pushE = @ + 1,
                              ![p].pushFailed = @ \/ ~ok,
                              ![p].failed = IF ok THEN @ ELSE @ \cup {"SyncEndpoints"}]
        /\ Unlock(p)
        /\ Return(p, IF ok THEN <<>> ELSE <<"SyncEndpoints">>)
    /\ UNCHANGED <<services, srvServices, op, epSlices, errors, pre>>
    /\ UNCHANGED <<countVars, cniVars>>

EndpointSliceEvent(p, E) ==
    \/ CallAddEndpointSlice(p, E)
    \/ CallUpdateEndpointSlice(p, E)
    \/ CallDeleteEndpointSlice(p, E)
    \/ ES_Lock(p) \/ ES_Check(p) \/ SE_Fetch(p) \/ SE_Body(p, E)

-----------------------------------------------------------------------------
(* Steps of the CNI request server *)

\* clientDoCNI posts a request on a new connection
ClientPost ==
    /\ cniStage \in {"idle", "answered"}
    /\ \E req \in Requests : cniReq' = req
    /\ cniStage' = "posted"
    /\ cniResp' = NoResponse
    /\ cniCalls' = <<>>
    /\ UNCHANGED <<syncVars, countVars>>

\* the server validates the request, calls the handler and writes the response
ServeRequest ==
    /\ cniStage = "posted"
    /\ LET verr == Validate(cniReq.Env) IN
       IF verr # <<>>
          THEN /\ cniResp' = [status |-> StatusBadRequest, body |-> verr]
               /\ UNCHANGED cniCalls
          ELSE LET request == PodRequest(cniReq)
                   result == serverHandleCNI(request)
               IN  /\ cniCalls' = Append(cniCalls, [request |-> request, result |-> result])
                   /\ cniResp' = IF result.err # <<>>
                                    THEN [status |-> StatusBadRequest, body |-> result.err]
                                    ELSE [status |-> StatusOK, body |-> result.out]
    /\ cniStage' = "answered"
    /\ UNCHANGED cniReq
    /\ UNCHANGED <<syncVars, countVars>>

-----------------------------------------------------------------------------
(* Specifications *)

\* What a specification covers: the goroutines that call, the services they
\* call about with which ports, whether the health server's copies of the
\* tables are kept, whether a call records the tables it started from, and
\* the outcomes a push to the health server may have (TRUE: it succeeds)
Sequential == [procs |-> {1}, names |-> Names, ports |-> Ports,
               server |-> FALSE, history |-> TRUE, pushes |-> BOOLEAN]
Concurrent == [procs |-> Procs, names |-> {"ns/a"}, ports |-> {0, 1},
               server |-> FALSE, history |-> FALSE, pushes |-> BOOLEAN]
\* every push succeeds, so that the health server's copies are the tables
\* last pushed
Published  == [procs |-> {1}, names |-> Names, ports |-> Ports,
               server |-> TRUE, history |-> TRUE, pushes |-> {TRUE}]

\* calls made one after the other, on any service
Next ==
    \E p \in Sequential.procs :
        \/ AddService(p, Sequential)
        \/ UpdateService(p, Sequential)
        \/ DeleteService(p, Sequential)
        \/ EndpointSliceEvent(p, Sequential)
        \/ Finish(p)

Spec == Init /\ [][Next]_vars

\* calls made concurrently by the goroutines of Procs, on one service
ConcNext ==
    \E p \in Concurrent.procs :
        \/ AddService(p, Concurrent)
        \/ UpdateService(p, Concurrent)
        \/ DeleteService(p, Concurrent)
        \/ EndpointSliceEvent(p, Concurrent)
        \/ Finish(p)

ConcSpec == Init /\ [][ConcNext]_vars

\* calls made one after the other, the health server's copies kept
PushNext ==
    \E p \in Published.procs :
        \/ AddService(p, Published)
        \/ UpdateService(p, Published)
        \/ DeleteService(p, Published)
        \/ EndpointSliceEvent(p, Published)
        \/ Finish(p)

PushSpec == Init /\ [][PushNext]_vars

\* requests posted to the CNI server one after the other
CNINext == ClientPost \/ ServeRequest

CNISpec == Init /\ [][CNINext]_vars

\* concurrent AddService, AddEndpointSlice and DeleteService calls only
AddDelNext ==
    \E p \in Concurrent.procs :
        \/ AddService(p, Concurrent)
        \/ DeleteService(p, Concurrent)
        \/ CallAddEndpointSlice(p, Concurrent)
        \/ ES_Lock(p) \/ ES_Check(p) \/ SE_Fetch(p) \/ SE_Body(p, Concurrent)
        \/ Finish(p)

AddDelSpec == Init /\ [][AddDelNext]_vars

-----------------------------------------------------------------------------
(* CountLocalReadyEndpointAddresses called on any list of slices *)

\* endpoint.Addresses
AddrLists == {<<"10.0.0.1">>, <<"10.0.0.2">>, <<"10.0.0.1", "10.0.0.2">>}
\* endpoint.Conditions as <<ready, serving, terminating>>
Conditions == BOOLEAN \X BOOLEAN \X BOOLEAN

RECURSIVE SumLen(_)
SumLen(lists) == IF lists = <<>> THEN 0 ELSE Len(Head(lists)) + SumLen(Tail(lists))

\* the caller passes a list with one more, empty, slice
CountNewSlice ==
    /\ Len(cin) < MaxSlices
    /\ cin' = Append(cin, <<>>)
    /\ cout' = CountLocalReadyEndpointAddresses(cin')
    /\ UNCHANGED <<syncVars, cniVars>>

\* the caller passes a list with one more endpoint in its last slice
CountNewEndpoint ==
    /\ cin # <<>>
    /\ SumLen(cin) < MaxEndpoints
    /\ \E n \in NodeNames, c \in Conditions, a \in AddrLists :
         cin' = [cin EXCEPT ![Len(cin)] = Append(@, Endpoint(n, c[1], c[2], c[3], a))]
    /\ cout' = CountLocalReadyEndpointAddresses(cin')
    /\ UNCHANGED <<syncVars, cniVars>>

\* direct calls of CountLocalReadyEndpointAddresses on growing lists
CountNext == CountNewSlice \/ CountNewEndpoint

CountSpec == Init /\ [][CountNext]_vars

\* the addresses of the local, ready endpoints of a list of slices
LocalReadyAddresses(slices) ==
    {a \in Addrs :
        \E i \in 1..Len(slices) : \E j \in 1..Len(slices[i]) :
            /\ slices[i][j].nodeName = LocalNode
            /\ slices[i][j].ready
            /\ \E k \in 1..Len(slices[i][j].addresses) :
                  slices[i][j].addresses[k] = a}

\* C6: CountLocalReadyEndpointAddresses returns the number of distinct
\* addresses of the endpoints that are on the local node and ready.
C6_CountIsDistinctLocalReady == cout = Cardinality(LocalReadyAddresses(cin))

\* one address in two slices, counted once, beside a second address
C6_Witness ==
    /\ Len(cin) = 2 /\ Len(cin[1]) = 1 /\ Len(cin[2]) = 1
    /\ cin[1][1].nodeName = LocalNode /\ cin[1][1].ready
    /\ cin[2][1].nodeName = LocalNode /\ cin[2][1].ready
    /\ cin[1][1].addresses = <<"10.0.0.1">>
    /\ cin[2][1].addresses = <<"10.0.0.1", "10.0.0.2">>
    /\ cout = 2

-----------------------------------------------------------------------------
(* Properties of the health-check synchronizer *)

Done(p) == pc[p] = "done"
Quiet == \A p \in Procs : pc[p] \in {"idle", "done"}
NoOrphan == \A n \in Names : MapHas(endpoints, n) => MapHas(services, n)
SliceKinds == {"AddEndpointSlice", "UpdateEndpointSlice", "DeleteEndpointSlice"}
IsOp(p, k) == Done(p) /\ op[p].kind = k
OwnSvcBefore(p) == pre[p].services[op[p].name]
OwnEpBefore(p) == pre[p].endpoints[op[p].name]

\* C1: whenever every call made so far has completed, each namespaced name with
\* an entry in the endpoint table has an entry in the service table.
C1_EndpointEntryImpliesServiceEntry == Quiet => NoOrphan

\* C2: once concurrent AddService, AddEndpointSlice and DeleteService calls
\* about one service have all completed, the endpoint table has an entry for
\* it only if the service table has one.
C2_NoOrphanAfterAddSliceAndDelete ==
    (\A p \in Concurrent.procs : Idle(p) \/ Done(p)) =>
        \A n \in Concurrent.names : ~MapHas(services, n) => ~MapHas(endpoints, n)

\* a DeleteService that ran after an AddEndpointSlice which had written an entry
C2_Witness ==
    /\ IsOp(1, "AddEndpointSlice") /\ log[1].pushE = 1 /\ epSlices[1] # <<>>
    /\ IsOp(2, "DeleteService") /\ log[2].pushS = 1
    /\ ~MapHas(endpoints, "ns/a") /\ ~MapHas(services, "ns/a")

\* the part of an operation from its first table access to its last push
Between(p) ==
    \/ pc[p] \in {"AS_Body", "DS_Body", "US_Body", "ES_Check", "SE_Fetch", "SE_Body"}
    \/ pc[p] \in {"US_Fetch", "US_Lock"} /\ log[p].pushS > 0

\* C3: every operation holds the lock from its first table access to its
\* last push.
C3_LockHeldFromFirstAccessToLastPush ==
    \A p \in Procs : Between(p) => lock = p

\* C4 as stated: after a Cluster->Local UpdateService of a service with a
\* non-zero port both tables have an entry for it; after a Local->Cluster
\* one neither has.
C4_TransitionEntries_AsStated ==
    \A p \in Procs : IsOp(p, "UpdateService") =>
        /\ (IsClusterToLocal(op[p].oldETP, op[p].etp) /\ op[p].port # 0)
              => MapHas(services, op[p].name) /\ MapHas(endpoints, op[p].name)
        /\ (IsLocalToCluster(op[p].oldETP, op[p].etp) /\ op[p].oldPort # 0)
              => ~MapHas(services, op[p].name) /\ ~MapHas(endpoints, op[p].name)

\* C4 amended: after a Cluster->Local UpdateService of a service with a
\* non-zero port whose endpoint-slice fetch succeeded, both tables have an
\* entry for it; after a Local->Cluster one neither has.
C4_TransitionEntries ==
    \A p \in Procs : IsOp(p, "UpdateService") =>
        /\ (IsClusterToLocal(op[p].oldETP, op[p].etp) /\ op[p].port # 0
                /\ ~log[p].fetchFailed)
              => MapHas(services, op[p].name) /\ MapHas(endpoints, op[p].name)
        /\ (IsLocalToCluster(op[p].oldETP, op[p].etp) /\ op[p].oldPort # 0)
              => ~MapHas(services, op[p].name) /\ ~MapHas(endpoints, op[p].name)

\* a completed Cluster->Local transition that fetched an empty slice list
C4_Witness ==
    /\ IsOp(1, "UpdateService")
    /\ IsClusterToLocal(op[1].oldETP, op[1].etp) /\ op[1].port # 0
    /\ ~log[1].fetchFailed /\ epSlices[1] = <<>>
    /\ ~MapHas(pre[1].services, op[1].name)
    /\ MapHas(services, op[1].name) /\ endpoints[op[1].name] = 0

\* C5: an operation whose GetEndpointSlices call failed returns an error and
\* leaves the service's entries in both tables as they were when it started.
C5_FetchFailureLeavesTables ==
    \A p \in Procs : (Done(p) /\ log[p].fetchFailed) =>
        /\ ret[p] # <<>>
        /\ services[op[p].name] = OwnSvcBefore(p)
        /\ endpoints[op[p].name] = OwnEpBefore(p)

\* C7: an endpoint-slice event whose owning service has no entry in the
\* service table changes no table, fetches nothing, pushes nothing and
\* returns success.
C7_UntrackedSliceEventIsNoOp ==
    \A p \in Procs :
        (Done(p) /\ op[p].kind \in SliceKinds /\ ~ExtractFails(op[p].label)
            /\ ~MapHas(pre[p].services, op[p].name)) =>
        /\ Tables = pre[p]
        /\ log[p].fetch = 0 /\ log[p].pushS = 0 /\ log[p].pushE = 0
        /\ ret[p] = <<>>

\* C8 as stated: DeleteService of a service without an entry in the service
\* table returns no error and leaves both tables unchanged.
C8_DeleteUntracked_AsStated ==
    \A p \in Procs :
        (IsOp(p, "DeleteService") /\ ~MapHas(pre[p].services, op[p].name)) =>
        /\ ret[p] = <<>>
        /\ Tables = pre[p]

\* C8 amended: DeleteService of a service without an entry in the service
\* table leaves the service table unchanged and the endpoint table unchanged
\* but for that service's entry, which is absent afterwards when the port is
\* non-zero; it returns an error only when the port is non-zero and the push
\* of the service table fails.
C8_DeleteUntracked ==
    \A p \in Procs :
        (IsOp(p, "DeleteService") /\ ~MapHas(pre[p].services, op[p].name)) =>
        /\ services = pre[p].services
        /\ \A n \in Names \ {op[p].name} : endpoints[n] = pre[p].endpoints[n]
        /\ endpoints[op[p].name] =
              IF op[p].port # 0 THEN Absent ELSE OwnEpBefore(p)
        /\ (ret[p] # <<>>) <=> (op[p].port # 0 /\ log[p].pushFailed)

\* a DeleteService with a non-zero port of an untracked service, while the
\* other service is tracked
C8_Witness ==
    /\ IsOp(1, "DeleteService") /\ op[1].port # 0 /\ op[1].name = "ns/a"
    /\ ~MapHas(pre[1].services, "ns/a")
    /\ MapHas(services, "ns/b") /\ MapHas(endpoints, "ns/b")
    /\ log[1].pushS = 1

-----------------------------------------------------------------------------
(* Properties of the CNI request server *)

Answered == cniStage = "answered"
Recognized == {CNIAdd, CNIDel, CNIUpdate, CNICheck}
HasPrefix(body, prefix) ==
    Len(body) >= Len(prefix) /\ SubSeq(body, 1, Len(prefix)) = prefix

LacksCommand(env) ==
    "CNI_COMMAND" \notin env.has \/ env.val["CNI_COMMAND"] \notin Recognized
LacksContainerID(env) ==
    "CNI_CONTAINERID" \notin env.has \/ env.val["CNI_CONTAINERID"] = <<>>
LacksNetns(env) ==
    "CNI_NETNS" \notin env.has /\ env.val["CNI_COMMAND"] # CNIDel
LacksArgs(env) == "CNI_ARGS" \notin env.has

\* CNI_ARGS holds a KEY=value piece with a non-empty value
HoldsPair(args, key) ==
    \E i \in 1..(Len(args) - 2) :
        /\ i = 1 \/ args[i - 1] = ";"
        /\ args[i] = key /\ args[i + 1] = "=" /\ args[i + 2] \notin {";", "="}
        /\ i + 2 = Len(args) \/ args[i + 3] = ";"

WellFormed(env) ==
    /\ ~LacksCommand(env) /\ ~LacksContainerID(env) /\ ~LacksNetns(env)
    /\ ~LacksArgs(env)
    /\ HoldsPair(env.val["CNI_ARGS"], "K8S_POD_NAMESPACE")
    /\ HoldsPair(env.val["CNI_ARGS"], "K8S_POD_NAME")

Refused(prefix) ==
    cniResp.status = StatusBadRequest /\ HasPrefix(cniResp.body, prefix)

\* C9 as stated: a request lacking the command (or with an unrecognized one),
\* the arguments, or the network namespace while not a Delete, is answered
\* with 400 and the prefix of that failure.
C9_MissingFieldPrefix_AsStated ==
    Answered =>
        /\ LacksCommand(cniReq.Env) => Refused(ErrCommand)
        /\ LacksArgs(cniReq.Env) => Refused(ErrArgs)
        /\ LacksNetns(cniReq.Env) => Refused(ErrNetns)

\* C9 amended: such a request is answered with 400, and the body begins with
\* the prefix of that failure when no check made before it fails: the command's
\* always, the network namespace's when command and container ID are in
\* order, the arguments' when command, container ID and network namespace are.
C9_MissingFieldPrefix ==
    Answered =>
        /\ LacksCommand(cniReq.Env) => Refused(ErrCommand)
        /\ LacksNetns(cniReq.Env) =>
              /\ cniResp.status = StatusBadRequest
              /\ (~LacksCommand(cniReq.Env) /\ ~LacksContainerID(cniReq.Env))
                    => Refused(ErrNetns)
        /\ LacksArgs(cniReq.Env) =>
              /\ cniResp.status = StatusBadRequest
              /\ (~LacksCommand(cniReq.Env) /\ ~LacksContainerID(cniReq.Env)
                    /\ ~LacksNetns(cniReq.Env)) => Refused(ErrArgs)

\* the test's request ARGS1 (an ADD without CNI_ARGS), refused
C9_Witness ==
    /\ Answered
    /\ cniReq = [Env |-> MkEnv(EnvKeys \ {"CNI_ARGS"}, CNIAdd, sandboxID,
                               <<"/path/to/something">>, <<>>),
                 Config |-> cniConfig]
    /\ Refused(ErrArgs)
    /\ cniCalls = <<>>

\* C10: a well-formed request is answered with 200 and the bytes the handler
\* returned: the marshalled result for ADD (which unmarshals to the expected
\* result), nothing for DEL, UPDATE and CHECK.
C10_WellFormedAnswer ==
    (Answered /\ WellFormed(cniReq.Env)) =>
        /\ cniResp.status = StatusOK
        /\ Len(cniCalls) = 1
        /\ cniResp.body = cniCalls[1].result.out
        /\ cniReq.Env.val["CNI_COMMAND"] = CNIAdd
              => Unmarshal(cniResp.body) = expectedResult
        /\ cniReq.Env.val["CNI_COMMAND"] \in {CNIDel, CNIUpdate, CNICheck}
              => cniResp.body = <<>>

\* the test's request ADD, answered with the result
C10_Witness ==
    /\ Answered
    /\ cniReq = [Env |-> MkEnv(EnvKeys, CNIAdd, sandboxID, <<"/path/to/something">>,
                               makeCNIArgs(namespace, podname)),
                 Config |-> cniConfig]
    /\ cniResp.status = StatusOK
    /\ cniResp.body # <<>>

\* C11: the handler is invoked for a request only if the request has a
\* recognized command, a non-empty container ID, a network namespace unless
\* the command is DEL, and arguments holding the pod namespace and the pod
\* name; a DEL without a network namespace that is otherwise in order is
\* handed to the handler.
C11_HandlerOnlyAfterValidation ==
    Answered =>
        /\ cniCalls # <<>> =>
              /\ WellFormed(cniReq.Env)
              /\ Len(cniCalls) = 1
              /\ cniCalls[1].request.Command = cniReq.Env.val["CNI_COMMAND"]
              /\ cniCalls[1].request.SandboxID # <<>>
              /\ cniCalls[1].request.PodNamespace # <<>>
              /\ cniCalls[1].request.PodName # <<>>
              /\ cniCalls[1].request.Command # CNIDel
                    => cniCalls[1].request.Netns # <<>>
        /\ (WellFormed(cniReq.Env) /\ cniReq.Env.val["CNI_COMMAND"] = CNIDel
                /\ "CNI_NETNS" \notin cniReq.Env.has)
              => Len(cniCalls) = 1 /\ cniResp.status = StatusOK

\* a DEL without CNI_NETNS handed to the handler
C11_Witness ==
    /\ Answered
    /\ cniReq.Env.has = EnvKeys \ {"CNI_NETNS"}
    /\ cniReq.Env.val["CNI_COMMAND"] = CNIDel
    /\ Len(cniCalls) = 1
    /\ cniCalls[1].request.Netns = <<>>
    /\ cniCalls[1].request.PodName = <<podname>>
    /\ cniResp.status = StatusOK

-----------------------------------------------------------------------------
(* Further properties of the health-check synchronizer *)

\* a completed endpoint-slice event of a service that was tracked when the
\* event arrived, and whose fetch succeeded
SyncedEvent(p) ==
    /\ Done(p) /\ op[p].kind \in SliceKinds
    /\ ~ExtractFails(op[p].label)
    /\ MapHas(pre[p].services, op[p].name)
    /\ ~log[p].fetchFailed

\* C12: after an endpoint-slice event of a tracked service whose fetch
\* succeeded, the endpoint table has no entry for the service when the fetched
\* list is empty, and otherwise holds the number of distinct local ready
\* addresses of all the fetched slices.
C12_EntryRecomputedFromAllSlices ==
    \A p \in Procs : SyncedEvent(p) =>
        /\ log[p].fetch = 1
        /\ endpoints[op[p].name] =
              IF epSlices[p] = <<>> THEN Absent
              ELSE Cardinality(LocalReadyAddresses(epSlices[p]))

\* an event that replaced a stored count by the count over two slices, neither
\* of which alone has it
C12_Witness ==
    /\ SyncedEvent(1) /\ op[1].kind = "UpdateEndpointSlice"
    /\ epSlices[1] = SliceListSplit
    /\ pre[1].endpoints[op[1].name] = 1
    /\ endpoints[op[1].name] = 2

\* a completed UpdateService of a Cluster->Local transition
ClusterToLocalDone(p) ==
    IsOp(p, "UpdateService") /\ IsClusterToLocal(op[p].oldETP, op[p].etp)

\* C13: in the Cluster->Local transition of UpdateService the fetch is made
\* whatever the outcome of the AddService step, the endpoint-table write and
\* push follow whenever the fetch succeeded, the returned aggregate holds one
\* error for each step that failed, and it is nil only if none failed.
C13_TransitionCollectsErrors ==
    \A p \in Procs : ClusterToLocalDone(p) =>
        /\ log[p].pushS = IF op[p].port # 0 THEN 1 ELSE 0
        /\ log[p].fetch = 1
        /\ ~log[p].fetchFailed =>
              /\ log[p].pushE = 1
              /\ endpoints[op[p].name] = Cardinality(LocalReadyAddresses(epSlices[p]))
        /\ Len(ret[p]) = Cardinality(log[p].failed)
        /\ \A f \in log[p].failed : \E i \in 1..Len(ret[p]) : ret[p][i] = f
        /\ (ret[p] = <<>>) <=> (log[p].failed = {})

\* a transition whose two pushes both failed: the endpoint entry is written
\* and both errors are returned
C13_Witness ==
    /\ ClusterToLocalDone(1) /\ op[1].port # 0
    /\ log[1].failed = {"SyncServices", "SyncEndpoints"}
    /\ epSlices[1] = SliceListOne
    /\ endpoints[op[1].name] = 1
    /\ Len(ret[1]) = 2

\* C14: an operation whose push to the health server failed returns an error
\* and keeps the table write it made before the push: the service entry of
\* AddService is present, both entries are absent after DeleteService, the
\* endpoint entry of an endpoint-slice event holds the recomputed value.
C14_FailedPushKeepsMutation ==
    \A p \in Procs : (Done(p) /\ log[p].pushFailed) =>
        /\ ret[p] # <<>>
        /\ op[p].kind = "AddService" => services[op[p].name] = op[p].port
        /\ op[p].kind = "DeleteService" =>
              ~MapHas(services, op[p].name) /\ ~MapHas(endpoints, op[p].name)
        /\ op[p].kind \in SliceKinds =>
              endpoints[op[p].name] =
                 IF epSlices[p] = <<>> THEN Absent
                 ELSE Cardinality(LocalReadyAddresses(epSlices[p]))
        /\ op[p].kind = "UpdateService" =>
              /\ "SyncEndpoints" \in log[p].failed =>
                    endpoints[op[p].name] = Cardinality(LocalReadyAddresses(epSlices[p]))
              /\ ("SyncServices" \in log[p].failed
                      /\ IsClusterToLocal(op[p].oldETP, op[p].etp)) =>
                    services[op[p].name] = op[p].port
              /\ ("SyncServices" \in log[p].failed
                      /\ IsLocalToCluster(op[p].oldETP, op[p].etp)) =>
                    ~MapHas(services, op[p].name) /\ ~MapHas(endpoints, op[p].name)

\* an AddService of an untracked service whose push failed: the entry is there
C14_Witness ==
    /\ IsOp(1, "AddService") /\ log[1].pushFailed
    /\ ~MapHas(pre[1].services, op[1].name)
    /\ services[op[1].name] = MaxPort
    /\ ret[1] # <<>>

\* C15: when no operation is in progress and every push so far has succeeded,
\* the tables last received by the health server are the tables in memory.
C15_ServerHoldsTables ==
    Quiet => srvServices = services /\ srvEndpoints = endpoints

\* C16: after AddService or UpdateService has delivered a service object, the
\* service table has an entry for the service only if that object has policy
\* Local and a non-zero health-check port.
C16_EntryOnlyForLocalWithPort ==
    \A p \in Procs :
        (Done(p) /\ op[p].kind \in {"AddService", "UpdateService"}
            /\ MapHas(services, op[p].name)) =>
        op[p].etp = "Local" /\ op[p].port # 0

\* C17: AddService with a non-zero port sets the service's entry to the port,
\* whatever it was, changes nothing else and pushes the service table once,
\* which the health server then holds; with a zero port it changes no table,
\* pushes nothing and returns success.
C17_AddServiceEffect ==
    \A p \in Procs : IsOp(p, "AddService") =>
        IF op[p].port # 0
           THEN /\ services[op[p].name] = op[p].port
                /\ \A n \in Names \ {op[p].name} : services[n] = pre[p].services[n]
                /\ endpoints = pre[p].endpoints
                /\ log[p].pushS = 1 /\ log[p].pushE = 0 /\ log[p].fetch = 0
                /\ srvServices = services
                /\ ret[p] = <<>>
           ELSE /\ Tables = pre[p]
                /\ log[p].pushS = 0 /\ log[p].pushE = 0 /\ log[p].fetch = 0
                /\ ret[p] = <<>>

\* an AddService that replaced the port of a tracked service, another service
\* being tracked as well
C17_Witness ==
    /\ IsOp(1, "AddService") /\ op[1].name = "ns/a" /\ op[1].port = 2
    /\ pre[1].services["ns/a"] = 1
    /\ services["ns/a"] = 2 /\ services["ns/b"] = 1
    /\ srvServices = services

\* a completed UpdateService whose policy transition is neither
\* Cluster->Local nor Local->Cluster
OtherTransitionDone(p) ==
    /\ IsOp(p, "UpdateService")
    /\ ~(op[p].oldETP = "Cluster" /\ op[p].etp = "Local")
    /\ ~(op[p].oldETP = "Local" /\ op[p].etp = "Cluster")

\* C18: an UpdateService whose policy transition is neither Cluster->Local
\* nor Local->Cluster changes no table, fetches nothing, pushes nothing and
\* returns success, whatever the ports of the old and the new object.
C18_OtherTransitionIsNoOp ==
    \A p \in Procs : OtherTransitionDone(p) =>
        /\ Tables = pre[p]
        /\ log[p].fetch = 0 /\ log[p].pushS = 0 /\ log[p].pushE = 0
        /\ ret[p] = <<>>

\* an update of a tracked policy=Cluster service that changes its port
C18_Witness ==
    /\ OtherTransitionDone(1)
    /\ op[1].oldETP = "Cluster" /\ op[1].etp = "Cluster"
    /\ op[1].oldPort = 1 /\ op[1].port = 2
    /\ pre[1].services[op[1].name] = 1 /\ MapHas(pre[1].endpoints, op[1].name)
    /\ Tables = pre[1]

\* C19: an endpoint-slice event of a tracked service whose fetch succeeded
\* pushes the endpoint table exactly once before it returns, the whole table
\* as it then is, also when the recomputed count is the one already stored.
C19_OnePushOfEndpointTable ==
    \A p \in Procs : SyncedEvent(p) =>
        /\ log[p].pushE = 1 /\ log[p].pushS = 0
        /\ srvEndpoints = endpoints

\* an event that recomputed the count already stored, another service having
\* an endpoint entry as well
C19_Witness ==
    /\ SyncedEvent(1) /\ op[1].name = "ns/a"
    /\ epSlices[1] = SliceListOne
    /\ pre[1].endpoints["ns/a"] = 1 /\ endpoints["ns/a"] = 1
    /\ MapHas(endpoints, "ns/b")
    /\ log[1].pushE = 1 /\ srvEndpoints = endpoints

\* C20: an endpoint-slice event whose slice has no service-name label returns
\* an error, changes no table, fetches nothing and pushes nothing.
C20_ExtractionFailure ==
    \A p \in Procs :
        (Done(p) /\ op[p].kind \in SliceKinds /\ op[p].label = NoLabel) =>
        /\ ret[p] # <<>>
        /\ Tables = pre[p]
        /\ log[p].fetch = 0 /\ log[p].pushS = 0 /\ log[p].pushE = 0

\* a DeleteEndpointSlice of a slice without the label, both services tracked
\* with endpoint entries
C20_Witness ==
    /\ IsOp(1, "DeleteEndpointSlice") /\ op[1].label = NoLabel
    /\ ret[1] = <<"extract">>
    /\ \A n \in Names : MapHas(services, n) /\ MapHas(endpoints, n)

-----------------------------------------------------------------------------
(* Order of the checks of the CNI request server *)

\* the arguments are missing or lack the pod namespace or the pod name
ArgsFail(env) ==
    \/ LacksArgs(env)
    \/ ~HoldsPair(env.val["CNI_ARGS"], "K8S_POD_NAMESPACE")
    \/ ~HoldsPair(env.val["CNI_ARGS"], "K8S_POD_NAME")

\* the prefix of the earliest failing check of a request, <<>> when none fails
EarliestFailure(env) ==
    IF LacksCommand(env) THEN ErrCommand
    ELSE IF LacksContainerID(env) THEN ErrContainerID
    ELSE IF LacksNetns(env) THEN ErrNetns
    ELSE IF ArgsFail(env) THEN ErrArgs
    ELSE <<>>

\* C21: a request that fails one or several checks is answered with 400 and
\* the prefix of the earliest failing check in the order command, container
\* ID, network namespace, arguments, with no other prefix, and the handler
\* is not invoked.
C21_EarliestFailingCheckOnly ==
    (Answered /\ EarliestFailure(cniReq.Env) # <<>>) =>
        /\ Refused(EarliestFailure(cniReq.Env))
        /\ \A e \in {ErrCommand, ErrContainerID, ErrNetns, ErrArgs} \
                    {EarliestFailure(cniReq.Env)} : ~HasPrefix(cniResp.body, e)
        /\ cniCalls = <<>>

\* a request lacking the command, the network namespace and the arguments,
\* refused for the command
C21_Witness ==
    /\ Answered
    /\ cniReq.Env.has = {"CNI_CONTAINERID"}
    /\ cniReq.Env.val["CNI_CONTAINERID"] = sandboxID
    /\ Refused(ErrCommand)
    /\ cniCalls = <<>>

-----------------------------------------------------------------------------
(* Concurrent calls of the health-check synchronizer *)

\* the local-ready count of the slice list a call fetched
CountFetchedBy(p) == Cardinality(LocalReadyAddresses(epSlices[p]))

\* the count the endpoint table gives for a service: 0 when it has no entry
EntryCount(name) == IF MapHas(endpoints, name) THEN endpoints[name] ELSE 0

\* p has completed a Cluster->Local transition and q an endpoint-slice event
\* of the same service, both after a successful fetch
TransitionBesideEvent(p, q) ==
    /\ p # q
    /\ ClusterToLocalDone(p) /\ log[p].fetch = 1 /\ ~log[p].fetchFailed
    /\ Done(q) /\ op[q].kind \in SliceKinds /\ op[q].name = op[p].name
    /\ log[q].fetch = 1 /\ ~log[q].fetchFailed

\* C22: once a Cluster->Local transition and a concurrent endpoint-slice event
\* of the same service have both completed, the endpoint entry gives the
\* local-ready count of the slice list returned by the later of their two
\* fetches (no entry counting as 0).
C22_NoStaleOverwrite ==
    \A p, q \in Procs : TransitionBesideEvent(p, q) =>
        /\ p \in log[q].after => EntryCount(op[p].name) = CountFetchedBy(q)
        /\ q \in log[p].after => EntryCount(op[p].name) = CountFetchedBy(p)

\* the steps of a call in progress that the Object Cache, the health server
\* and the scheduler let happen
Proceeds(p) ==
    \/ AS_Body(p, Concurrent) \/ DS_Body(p, Concurrent)
    \/ US_Fetch(p) \/ US_Body(p, Concurrent)
    \/ ES_Check(p) \/ SE_Fetch(p) \/ SE_Body(p, Concurrent)

\* the l.Lock() calls of a call in progress
Acquires(p) == AS_Lock(p) \/ DS_Lock(p) \/ US_Lock(p) \/ ES_Lock(p)

\* concurrent calls whose external calls return, under a fair mutex: a
\* goroutine waiting in l.Lock() gets the mutex if it is free again and again
LiveSpec ==
    /\ Init /\ [][ConcNext]_vars
    /\ \A p \in Procs : WF_vars(Proceeds(p)) /\ SF_vars(Acquires(p))

InProgress(p) == pc[p] \notin {"idle", "done"}
AtLock(p) == pc[p] \in {"AS_Lock", "DS_Lock", "US_Lock", "ES_Lock"}

\* no goroutine calls l.Lock() while it holds the mutex, and none holds it
\* outside a call
LockDiscipline ==
    \A p \in Procs :
        /\ AtLock(p) => lock # p
        /\ ~InProgress(p) => lock # p

\* C23: no operation acquires the lock while it holds it, every operation
\* has released it when it returns, and every started operation eventually
\* returns.
C23_DeadlockFreedom ==
    /\ []LockDiscipline
    /\ \A p \in Procs : InProgress(p) ~> Done(p)

\* a Cluster->Local transition waiting for the lock an endpoint-slice event
\* holds
C23_Witness ==
    /\ pc[1] = "US_Lock" /\ log[1].pushS = 1
    /\ pc[2] = "SE_Fetch" /\ lock = 2

\* the namespaced names a completed call may have written entries of: the
\* service's, or the owning service's of the slice (none without the label)
OwnNames(p) ==
    IF op[p].kind \in SliceKinds /\ op[p].label = NoLabel
        THEN {}
        ELSE {op[p].name}

\* C24: an operation leaves the service-table and endpoint-table entries of
\* every namespaced name other than the one it was called with as they were,
\* whether it returns success or an error.
C24_OtherEntriesUnchanged ==
    \A p \in Procs : (Done(p) /\ op[p].kind # "none") =>
        \A n \in Names \ OwnNames(p) :
            /\ services[n] = pre[p].services[n]
            /\ endpoints[n] = pre[p].endpoints[n]

\* a DeleteService that removed both entries of its service and returned an
\* error, the other service keeping its two entries
C24_Witness ==
    /\ IsOp(1, "DeleteService") /\ op[1].name = "ns/a" /\ ret[1] # <<>>
    /\ MapHas(pre[1].services, "ns/a") /\ MapHas(pre[1].endpoints, "ns/a")
    /\ ~MapHas(services, "ns/a") /\ ~MapHas(endpoints, "ns/a")
    /\ services["ns/b"] = 2 /\ endpoints["ns/b"] = 2

=============================================================================
